---- MODULE Spec2Model ----
(***************************************************************************)
(* Model of the two command-line utilities of the repository:              *)
(*   create_embeddings (src/Langflow/embedder.py): the backfill job        *)
(*   semantic_search   (src/Langflow/embedder_test.py): the query tool     *)
(* The database is PostgreSQL reached through psycopg2 with autocommit     *)
(* off: a statement that fails inside a transaction leaves the transaction *)
(* aborted, later statements of that transaction fail, and commit() of an  *)
(* aborted transaction rolls it back.  A WITH HOLD cursor is materialised  *)
(* when the declaring transaction commits and keeps its position across    *)
(* transactions.                                                           *)
(***************************************************************************)
EXTENDS Integers, Sequences, FiniteSets, TLC

\* ---------------------------------------------------------------- bounds
MaxRows == 3
MaxBatch == 2
MaxRuns == 2
MaxLimit == 2
MaxFaults == 2

\* Python None / SQL NULL
NULL == -1

VARIABLES
    \* ---- database: catalog and table
    table_exists,     \* information_schema.tables has table_name
    column_exists,    \* information_schema.columns has (table_name, column_name)
    pk_columns,       \* result of the primary-key introspection query
    embcol_exists,    \* the <column>_embeddings column exists
    table,            \* committed rows: sequence of [k, j, text, emb]
    txn,              \* the rows as seen inside the connection's open transaction
    txstatus,         \* "idle" | "intrans" | "inerror"
    \* ---- server-side cursor
    cursor,           \* materialised result of the DECLAREd query
    cursor_pos,
    cursor_open,
    \* ---- create_embeddings locals
    pc,
    batch_size,
    pk_column,
    rows,             \* the chunk returned by the last FETCH
    idx,              \* position of the for loop inside rows
    total_processed,
    diag,             \* the last diagnostic printed
    \* ---- semantic_search locals
    conn_open,
    phrase,
    limit,
    search_embedding,
    results,
    \* ---- history (observation only)
    run,              \* number of the current create_embeddings run
    faults,           \* failures injected so far
    provider_calls,   \* embedding-provider calls of the current run
    updates_issued,   \* UPDATE statements executed by the current run
    updates_pending,  \* UPDATE statements executed since the last commit
    declared,         \* the current run has declared its cursor
    init_db,          \* [embcol, table] when the current run started
    at_declare,       \* table when the current run declared its cursor
    fetched,          \* per row: how often the current run fetched it
    pfail,            \* positions of rows whose provider call failed, this chunk
    ufail,            \* positions of rows whose UPDATE itself failed, this chunk
    first_chunk,      \* length of the first chunk fetched by the current run (NULL before)
    db_queries,       \* statements semantic_search sent to the database
    table_checked     \* semantic_search saw the table-existence check succeed

vars == << table_exists, column_exists, pk_columns, embcol_exists, table, txn,
           txstatus, cursor, cursor_pos, cursor_open, pc, batch_size, pk_column,
           rows, idx, total_processed, diag, conn_open, phrase, limit,
           search_embedding, results, run, faults, provider_calls,
           updates_issued, updates_pending, declared, init_db, at_declare,
           fetched, pfail, ufail, first_chunk, db_queries, table_checked >>

dbVars == << table_exists, column_exists, pk_columns, embcol_exists, table, txn, txstatus >>
cursorVars == << cursor, cursor_pos, cursor_open >>
searchVars == << conn_open, phrase, limit, search_embedding, results, db_queries, table_checked >>
loopVars == << rows, idx, total_processed >>
histVars == << run, init_db, at_declare, declared, first_chunk >>

Min(a, b) == IF a < b THEN a ELSE b

\* ------------------------------------------------------------- the table
\* A row of the target table: k and j are the candidate key columns, text the
\* source column, emb the <column>_embeddings column.
Row(kv, jv, t, e) == [k |-> kv, j |-> jv, text |-> t, emb |-> e]

\* The embedding provider: one text in, one vector out.  A vector is a unit
\* vector at a multiple of 60 degrees, named by that multiple (0..5); the
\* provider never returns direction 0, which the initial tables use for
\* vectors written before the run.
Embed(t) == (t % 5) + 1

\* The key layout of row i: with a single-column key k is unique, with the
\* composite key (k, j) only the pair is.
KeyK(pk, i) == IF Len(pk) > 1 THEN (i + 1) \div 2 ELSE i

\* All tables of n rows; text is NULL or the row's own text, emb is NULL or
\* one of the vectors in embs.
TablesOf(n, pk, hasText, embs) ==
    { [i \in 1..n |-> Row(KeyK(pk, i), i, IF tx[i] THEN i ELSE NULL, em[i])] :
        tx \in [1..n -> IF hasText THEN BOOLEAN ELSE {FALSE}],
        em \in [1..n -> embs] }

Tables(pk, hasText, embs) ==
    UNION { TablesOf(n, pk, hasText, embs) : n \in 0..MaxRows }

NoFetch == [i \in 1..MaxRows |-> 0]

\* ---------------------------------------------------------- initial states
InitCommon ==
    /\ txn = table
    /\ txstatus = "idle"
    /\ cursor = << >>
    /\ cursor_pos = 0
    /\ cursor_open = FALSE
    /\ pk_column = "none"
    /\ rows = << >>
    /\ idx = 0
    /\ total_processed = 0
    /\ diag = "none"
    /\ conn_open = FALSE
    /\ search_embedding = NULL
    /\ results = << >>
    /\ run = 1
    /\ faults = 0
    /\ provider_calls = 0
    /\ updates_issued = 0
    /\ updates_pending = 0
    /\ declared = FALSE
    /\ init_db = [embcol |-> embcol_exists, table |-> table]
    /\ at_declare = << >>
    /\ fetched = NoFetch
    /\ pfail = {}
    /\ ufail = {}
    /\ first_chunk = NULL
    /\ db_queries = 0
    /\ table_checked = FALSE

\* create_embeddings(db_params, table_name, column_name, api_key, batch_size)
InitBackfill ==
    /\ table_exists \in BOOLEAN
    /\ column_exists \in (IF table_exists THEN BOOLEAN ELSE {FALSE})
    /\ pk_columns \in (IF table_exists THEN {<< >>, <<"k">>, <<"k", "j">>} ELSE {<< >>})
    /\ embcol_exists \in (IF column_exists THEN BOOLEAN ELSE {FALSE})
    /\ table \in (IF table_exists
                   THEN Tables(pk_columns, column_exists,
                               IF embcol_exists THEN {NULL, 0} ELSE {NULL})
                   ELSE {<< >>})
    /\ batch_size \in 1..MaxBatch
    /\ pc = "connect"
    /\ phrase = NULL
    /\ limit = 0
    /\ InitCommon

\* ------------------------------------------------ database operations
\* (mutant) the cursor query without its WHERE clause
CursorQuery_All(t, col, i) ==
    [n \in 1..(Len(t) + 1 - i) |->
        [row |-> n + i - 1, id |-> t[n + i - 1][col], text |-> t[n + i - 1].text]]

\* SELECT pk, text FROM table WHERE emb IS NULL, in table order.  Each result
\* row carries the position of the table row it came from (row), which the
\* program does not see.
RECURSIVE CursorQuery(_, _, _)
CursorQuery(t, col, i) ==
    IF i > Len(t) THEN << >>
    ELSE IF t[i].emb = NULL
         THEN << [row |-> i, id |-> t[i][col], text |-> t[i].text] >>
              \o CursorQuery(t, col, i + 1)
         ELSE CursorQuery(t, col, i + 1)

\* (mutant) FETCH returning one row more than asked for
FetchChunk_OneMore(cur, pos, n) == SubSeq(cur, pos + 1, Min(pos + n + 1, Len(cur)))

\* (mutant) FETCH starting again at the last row already returned
FetchChunk_Overlap(cur, pos, n) ==
    SubSeq(cur, IF pos = 0 THEN 1 ELSE pos, Min(pos + n, Len(cur)))

\* FETCH n FROM embedding_cursor: the next n rows after position pos.
FetchChunk(cur, pos, n) == SubSeq(cur, pos + 1, Min(pos + n, Len(cur)))

\* UPDATE table SET emb = e WHERE col = id
UpdateWhere(t, col, id, e) ==
    [i \in DOMAIN t |-> IF t[i][col] = id THEN [t[i] EXCEPT !.emb = e] ELSE t[i]]

\* (mutant) the chunk's updates never reach the committed table
CommitResult_Discard(committed, working, status) == committed

\* conn.commit(): an aborted transaction is rolled back instead.
CommitResult(committed, working, status) ==
    IF status = "inerror" THEN committed ELSE working

\* The positions of the table rows that a chunk's result rows came from.
ChunkRows(chunk) == { chunk[i].row : i \in DOMAIN chunk }

CountFetch(f, chunk) ==
    [i \in DOMAIN f |-> IF i \in ChunkRows(chunk) THEN f[i] + 1 ELSE f[i]]

\* ------------------------------------------------------ create_embeddings
\* except psycopg2.Error: the run ends with a diagnostic; leaving the
\* connection's with block on an exception rolls the open transaction back.
DatabaseError ==
    /\ faults < MaxFaults
    /\ faults' = faults + 1
    /\ pc' = "failed"
    /\ diag' = "database_error"
    /\ txn' = table
    /\ txstatus' = "idle"
    /\ UNCHANGED << table_exists, column_exists, pk_columns, embcol_exists, table >>

\* with psycopg2.connect(**db_params) as conn
B_Connect ==
    /\ pc = "connect"
    /\ \/ /\ conn_open' = TRUE
          /\ pc' = "check_table"
          /\ UNCHANGED << dbVars, diag, faults >>
       \/ /\ DatabaseError
          /\ UNCHANGED conn_open
    /\ UNCHANGED << cursorVars, batch_size, pk_column, loopVars, phrase, limit,
                    search_embedding, results, db_queries, table_checked,
                    histVars, provider_calls, updates_issued, updates_pending,
                    fetched, pfail, ufail >>

\* the table-existence check
B_CheckTable ==
    /\ pc = "check_table"
    /\ IF table_exists
       THEN pc' = "check_column" /\ UNCHANGED diag
       ELSE pc' = "returned" /\ diag' = "table_does_not_exist"
    /\ UNCHANGED << dbVars, cursorVars, batch_size, pk_column, loopVars,
                    searchVars, histVars, faults, provider_calls, updates_issued,
                    updates_pending, fetched, pfail, ufail >>

\* the column-existence check
B_CheckColumn ==
    /\ pc = "check_column"
    /\ IF column_exists
       THEN pc' = "find_pk" /\ UNCHANGED diag
       ELSE pc' = "returned" /\ diag' = "column_does_not_exist"
    /\ UNCHANGED << dbVars, cursorVars, batch_size, pk_column, loopVars,
                    searchVars, histVars, faults, provider_calls, updates_issued,
                    updates_pending, fetched, pfail, ufail >>

\* the primary-key introspection: only an empty result stops the run; of
\* several key columns the first is taken.
B_FindPk ==
    /\ pc = "find_pk"
    /\ IF pk_columns = << >>
       THEN pc' = "returned" /\ diag' = "no_primary_key" /\ UNCHANGED pk_column
       ELSE pc' = "add_column" /\ pk_column' = pk_columns[1] /\ UNCHANGED diag
    /\ UNCHANGED << dbVars, cursorVars, batch_size, loopVars,
                    searchVars, histVars, faults, provider_calls, updates_issued,
                    updates_pending, fetched, pfail, ufail >>

\* ALTER TABLE ... ADD COLUMN IF NOT EXISTS ..., then commit
B_AddColumn ==
    /\ pc = "add_column"
    /\ embcol_exists' = TRUE
    /\ pc' = "declare"
    /\ UNCHANGED << table_exists, column_exists, pk_columns, table, txn, txstatus,
                    cursorVars, batch_size, pk_column, loopVars, diag,
                    searchVars, histVars, faults, provider_calls, updates_issued,
                    updates_pending, fetched, pfail, ufail >>

\* DECLARE embedding_cursor CURSOR WITH HOLD FOR SELECT ... WHERE emb IS NULL,
\* then commit; total_processed = 0
B_Declare ==
    /\ pc = "declare"
    /\ cursor' = CursorQuery(table, pk_column, 1)
    /\ cursor_pos' = 0
    /\ cursor_open' = TRUE
    /\ total_processed' = 0
    /\ declared' = TRUE
    /\ at_declare' = table
    /\ pc' = "fetch"
    /\ UNCHANGED << dbVars, batch_size, pk_column, rows, idx, diag, searchVars,
                    run, init_db, first_chunk, faults, provider_calls,
                    updates_issued, updates_pending, fetched, pfail, ufail >>

\* FETCH batch_size FROM embedding_cursor; an empty chunk ends the loop
B_Fetch ==
    /\ pc = "fetch"
    /\ \/ /\ rows' = FetchChunk(cursor, cursor_pos, batch_size)
          /\ cursor_pos' = cursor_pos + Len(rows')
          /\ idx' = 1
          /\ pc' = IF rows' = << >> THEN "close" ELSE "row"
          /\ txstatus' = "intrans"
          /\ fetched' = CountFetch(fetched, rows')
          /\ first_chunk' = IF first_chunk = NULL THEN Len(rows') ELSE first_chunk
          /\ pfail' = {}
          /\ ufail' = {}
          /\ UNCHANGED << table_exists, column_exists, pk_columns, embcol_exists,
                          table, txn, diag, faults >>
       \/ /\ DatabaseError
          /\ UNCHANGED << rows, idx, cursor_pos, fetched, first_chunk, pfail, ufail >>
    /\ UNCHANGED << cursor, cursor_open, batch_size, pk_column, total_processed,
                    searchVars, run, init_db, at_declare, declared,
                    provider_calls, updates_issued, updates_pending >>

\* One iteration of "for row in rows".  outcome names what the provider and
\* the database do with this row: "ok", "provider_error" (the embeddings call
\* raises) or "update_error" (the UPDATE raises).
ProcessRow(outcome) ==
    LET r == rows[idx] IN
    /\ idx' = idx + 1
    /\ pc' = IF idx = Len(rows) THEN "commit" ELSE "row"
    /\ IF r.text = NULL
       THEN \* continue
            /\ outcome = "ok"
            /\ UNCHANGED << txn, txstatus, faults, provider_calls, updates_issued,
                            updates_pending, pfail, ufail >>
       ELSE IF outcome = "provider_error"
       THEN \* client.embeddings.create raises: caught, the row is logged
            /\ faults < MaxFaults
            /\ faults' = faults + 1
            /\ provider_calls' = provider_calls + 1
            /\ pfail' = pfail \cup {idx}
            /\ UNCHANGED << txn, txstatus, updates_issued, updates_pending, ufail >>
       ELSE /\ provider_calls' = provider_calls + 1
            /\ updates_issued' = updates_issued + 1
            /\ updates_pending' = updates_pending + 1
            /\ UNCHANGED pfail
            /\ IF txstatus = "inerror"
               THEN \* the transaction is aborted: the statement is refused
                    /\ outcome = "ok"
                    /\ UNCHANGED << txn, txstatus, faults, ufail >>
               ELSE IF outcome = "update_error"
               THEN \* the UPDATE raises: caught, the transaction is now aborted
                    /\ faults < MaxFaults
                    /\ faults' = faults + 1
                    /\ txstatus' = "inerror"
                    /\ ufail' = ufail \cup {idx}
                    /\ UNCHANGED txn
               ELSE /\ txn' = UpdateWhere(txn, pk_column, r.id, Embed(r.text))
                    /\ UNCHANGED << txstatus, faults, ufail >>

B_Row ==
    /\ pc = "row"
    /\ \E outcome \in {"ok", "provider_error", "update_error"} : ProcessRow(outcome)
    /\ UNCHANGED << table_exists, column_exists, pk_columns, embcol_exists, table,
                    cursorVars, batch_size, pk_column, rows, total_processed, diag,
                    searchVars, histVars, fetched >>

\* conn.commit() after the chunk; total_processed += len(rows)
B_Commit ==
    /\ pc = "commit"
    /\ \/ /\ table' = CommitResult(table, txn, txstatus)
          /\ txn' = table'
          /\ txstatus' = "idle"
          /\ total_processed' = total_processed + Len(rows)
          /\ updates_pending' = 0
          /\ pc' = "fetch"
          /\ UNCHANGED << table_exists, column_exists, pk_columns, embcol_exists,
                          diag, faults >>
       \/ /\ DatabaseError
          /\ UNCHANGED << total_processed, updates_pending >>
    /\ UNCHANGED << cursorVars, batch_size, pk_column, rows, idx, searchVars,
                    histVars, provider_calls, updates_issued, fetched, pfail, ufail >>

\* CLOSE embedding_cursor, commit, "Embedding generation completed."
B_Close ==
    /\ pc = "close"
    /\ cursor_open' = FALSE
    /\ txstatus' = "idle"
    /\ pc' = "done"
    /\ diag' = "completed"
    /\ UNCHANGED << table_exists, column_exists, pk_columns, embcol_exists, table,
                    txn, cursor, cursor_pos, batch_size, pk_column, loopVars,
                    searchVars, histVars, faults, provider_calls, updates_issued,
                    updates_pending, fetched, pfail, ufail >>

\* The command is run again on the same database, nothing else having touched
\* the data in between.
B_RunAgain ==
    /\ pc = "done"
    /\ run < MaxRuns
    /\ run' = run + 1
    /\ pc' = "connect"
    /\ diag' = "none"
    /\ init_db' = [embcol |-> embcol_exists, table |-> table]
    /\ declared' = FALSE
    /\ first_chunk' = NULL
    /\ provider_calls' = 0
    /\ updates_issued' = 0
    /\ fetched' = NoFetch
    /\ rows' = << >>
    /\ idx' = 0
    /\ total_processed' = 0
    /\ pk_column' = "none"
    /\ conn_open' = FALSE
    /\ pfail' = {}
    /\ ufail' = {}
    /\ UNCHANGED << dbVars, cursorVars, batch_size, phrase, limit, search_embedding,
                    results, db_queries, table_checked, at_declare, faults,
                    updates_pending >>

NextBackfill ==
    \/ B_Connect
    \/ B_CheckTable
    \/ B_CheckColumn
    \/ B_FindPk
    \/ B_AddColumn
    \/ B_Declare
    \/ B_Fetch
    \/ B_Row
    \/ B_Commit
    \/ B_Close
    \/ B_RunAgain

SpecBackfill == InitBackfill /\ [][NextBackfill]_vars

\* The program is sequential: it keeps taking steps until it ends.
FairBackfill == SpecBackfill /\ WF_vars(NextBackfill)

\* -------------------------------------------------------- semantic_search
InitSearch ==
    /\ table_exists \in BOOLEAN
    /\ column_exists \in (IF table_exists THEN BOOLEAN ELSE {FALSE})
    /\ embcol_exists \in (IF table_exists THEN BOOLEAN ELSE {FALSE})
    /\ pk_columns = (IF table_exists THEN <<"k">> ELSE << >>)
    /\ table \in (IF table_exists
                   THEN Tables(pk_columns, column_exists,
                               IF embcol_exists THEN {NULL, 0, 2, 3, 5} ELSE {NULL})
                   ELSE {<< >>})
    /\ phrase \in 1..2
    /\ limit \in 1..MaxLimit
    /\ batch_size = 1
    /\ pc = "s_connect"
    /\ InitCommon

\* a <=> b, pgvector's cosine distance, in tenths: 1 - cos of the angle
\* between the two directions (0, 60, 120 or 180 degrees apart).
CosineDistance(a, b) ==
    LET d == IF a >= b THEN a - b ELSE b - a
        m == Min(d, 6 - d)
    IN  CASE m = 0 -> 0
          [] m = 1 -> 5
          [] m = 2 -> 15
          [] OTHER -> 20

\* WHERE emb IS NOT NULL
NotNullRows(t) == { i \in DOMAIN t : t[i].emb # NULL }

\* (mutant) ORDER BY ... DESC
OrderBy_Desc(t, q, sel) ==
    { ord \in [1..Cardinality(sel) -> sel] :
        /\ \A i, j \in DOMAIN ord : i # j => ord[i] # ord[j]
        /\ \A i, j \in DOMAIN ord :
             i < j => CosineDistance(t[ord[i]].emb, q) >= CosineDistance(t[ord[j]].emb, q) }

\* ORDER BY emb <=> q: every order of the selected rows that ascends in
\* distance (rows at equal distance come in any order).
OrderBy(t, q, sel) ==
    { ord \in [1..Cardinality(sel) -> sel] :
        /\ \A i, j \in DOMAIN ord : i # j => ord[i] # ord[j]
        /\ \A i, j \in DOMAIN ord :
             i < j => CosineDistance(t[ord[i]].emb, q) <= CosineDistance(t[ord[j]].emb, q) }

\* LIMIT n
Limit(ord, n) == SubSeq(ord, 1, Min(n, Len(ord)))

\* SELECT text, 1 - (emb <=> q) AS similarity (in tenths); row is the
\* position of the table row, which the program does not see.
Select(t, q, ord) ==
    [i \in DOMAIN ord |-> [row |-> ord[i], text |-> t[ord[i]].text,
                           similarity |-> 10 - CosineDistance(t[ord[i]].emb, q)]]

\* the possible results of the ranking query
RankingQuery(t, q, n) ==
    { Select(t, q, Limit(ord, n)) : ord \in OrderBy(t, q, NotNullRows(t)) }

backfillVars == << cursorVars, batch_size, pk_column, loopVars, run, faults,
                   updates_issued, updates_pending, declared, init_db, at_declare,
                   fetched, pfail, ufail, first_chunk >>

\* conn = psycopg2.connect(**db_params)
S_Connect ==
    /\ pc = "s_connect"
    /\ \/ conn_open' = TRUE /\ pc' = "s_embed" /\ UNCHANGED diag
       \/ pc' = "s_returned" /\ diag' = "connection_error" /\ UNCHANGED conn_open
    /\ UNCHANGED << dbVars, backfillVars, phrase, limit, search_embedding, results,
                    provider_calls, db_queries, table_checked >>

\* (mutant) the provider-failure path returns without conn.close()
S_Embed_NoClose ==
    /\ pc = "s_embed"
    /\ provider_calls' = provider_calls + 1
    /\ \/ /\ search_embedding' = Embed(phrase)
          /\ pc' = "s_check_table"
          /\ UNCHANGED diag
       \/ /\ pc' = "s_returned"
          /\ diag' = "embedding_error"
          /\ UNCHANGED search_embedding
    /\ UNCHANGED << dbVars, backfillVars, phrase, limit, results, db_queries,
                    table_checked, conn_open >>

\* the embedding of the search phrase
S_Embed ==
    /\ pc = "s_embed"
    /\ provider_calls' = provider_calls + 1
    /\ \/ /\ search_embedding' = Embed(phrase)
          /\ pc' = "s_check_table"
          /\ UNCHANGED << diag, conn_open >>
       \/ /\ pc' = "s_returned"
          /\ diag' = "embedding_error"
          /\ conn_open' = FALSE
          /\ UNCHANGED search_embedding
    /\ UNCHANGED << dbVars, backfillVars, phrase, limit, results, db_queries,
                    table_checked >>

\* the table-existence check
S_CheckTable ==
    /\ pc = "s_check_table"
    /\ db_queries' = db_queries + 1
    /\ IF table_exists
       THEN pc' = "s_check_columns" /\ table_checked' = TRUE
            /\ UNCHANGED << diag, conn_open >>
       ELSE pc' = "s_returned" /\ diag' = "table_does_not_exist"
            /\ conn_open' = FALSE /\ UNCHANGED table_checked
    /\ UNCHANGED << dbVars, backfillVars, phrase, limit, search_embedding, results,
                    provider_calls >>

\* the two column-existence checks
S_CheckColumns ==
    /\ pc = "s_check_columns"
    /\ db_queries' = db_queries + 2
    /\ IF column_exists /\ embcol_exists
       THEN pc' = "s_query" /\ UNCHANGED << diag, conn_open >>
       ELSE pc' = "s_returned" /\ diag' = "column_does_not_exist"
            /\ conn_open' = FALSE
    /\ UNCHANGED << dbVars, backfillVars, phrase, limit, search_embedding, results,
                    provider_calls, table_checked >>

\* the ranking query
S_Query ==
    /\ pc = "s_query"
    /\ db_queries' = db_queries + 1
    /\ \/ /\ results' \in RankingQuery(table, search_embedding, limit)
          /\ pc' = "s_display"
          /\ UNCHANGED << diag, conn_open >>
       \/ /\ pc' = "s_returned"
          /\ diag' = "query_error"
          /\ conn_open' = FALSE
          /\ UNCHANGED results
    /\ UNCHANGED << dbVars, backfillVars, phrase, limit, search_embedding,
                    provider_calls, table_checked >>

\* the results are printed, cursor and connection closed
S_Display ==
    /\ pc = "s_display"
    /\ pc' = "s_done"
    /\ diag' = "matches"
    /\ conn_open' = FALSE
    /\ UNCHANGED << dbVars, backfillVars, phrase, limit, search_embedding, results,
                    provider_calls, db_queries, table_checked >>

NextSearch ==
    \/ S_Connect
    \/ S_Embed
    \/ S_CheckTable
    \/ S_CheckColumns
    \/ S_Query
    \/ S_Display

SpecSearch == InitSearch /\ [][NextSearch]_vars

\* ------------------------------------------------------------------ claims
BackfillEnded == pc \in {"done", "returned", "failed"}
NullAt(t) == { r \in DOMAIN t : t[r].emb = NULL }

\* C1: in query mode a missing table gives no results and no provider call:
\* whenever the embedding provider has been called, the table-existence
\* check has succeeded before.
C1_ProviderOnlyAfterTableCheck ==
    /\ (provider_calls > 0) => table_checked
    /\ (~table_exists) => (provider_calls = 0 /\ results = << >>)

\* C2: when the provider call fails for exactly one row of a chunk (and
\* nothing else fails), the commit of that chunk leaves every other row of the
\* chunk that has a text with its embedding set in the committed table (with
\* a single-column key: set to the vector of its own text), and the loop goes
\* on to the next FETCH.
C2_ProviderFailureIsolated ==
    [][ (pc = "commit" /\ diag' # "database_error"
         /\ Cardinality(pfail) = 1 /\ ufail = {})
        => /\ pc' = "fetch"
           /\ \A i \in DOMAIN rows :
                (i \notin pfail /\ rows[i].text # NULL)
                => /\ table'[rows[i].row].emb # NULL
                   /\ (Len(pk_columns) = 1
                       => table'[rows[i].row].emb = Embed(rows[i].text)) ]_vars

C2_Witness ==
    /\ pc = "fetch"
    /\ Len(rows) >= 2
    /\ Cardinality(pfail) = 1
    /\ ufail = {}
    /\ \E i \in DOMAIN rows :
         i \notin pfail /\ rows[i].text # NULL /\ table[rows[i].row].emb = Embed(rows[i].text)

\* C3: when the UPDATE fails for exactly one row of a chunk (and no provider
\* call fails), the chunk is still committed with the updates of its other
\* rows: after the commit every other row of the chunk that has a text has
\* its embedding set in the committed table.
C3_UpdateFailureIsolated ==
    (pc = "fetch" /\ rows # << >> /\ Cardinality(ufail) = 1 /\ pfail = {})
    => \A i \in DOMAIN rows :
         (i \notin ufail /\ rows[i].text # NULL) => table[rows[i].row].emb # NULL

\* C4 (as stated): a second run leaves the table as the first run left it and
\* processes zero rows: its first FETCH is empty and its total is 0.
C4_SecondRunProcessesNothing ==
    (run >= 2 /\ pc = "done")
    => /\ table = init_db.table
       /\ first_chunk = 0
       /\ total_processed = 0

\* C4 (amended): a later run fetches exactly the rows whose embedding was
\* still NULL when the run before it ended, and its total is their number;
\* when the run before left no row NULL, the first FETCH returns an empty
\* chunk, the run processes zero rows, calls the provider and issues UPDATE
\* never, and leaves the table as it was.
C4_SecondRunRedoesOnlyNullRows ==
    /\ (run >= 2 /\ declared)
       => /\ ChunkRows(cursor) = NullAt(init_db.table)
          /\ \A r \in DOMAIN table : fetched[r] > 0 => r \in NullAt(init_db.table)
    /\ (run >= 2 /\ pc = "done")
       => /\ total_processed = Cardinality(NullAt(init_db.table))
          /\ \A r \in NullAt(init_db.table) : fetched[r] = 1
          /\ NullAt(init_db.table) = {}
             => /\ first_chunk = 0
                /\ provider_calls = 0
                /\ updates_issued = 0
                /\ table = init_db.table

C4_Witness ==
    /\ run = 2
    /\ pc = "done"
    /\ Len(table) >= 2
    /\ NullAt(init_db.table) = {}
    /\ \E r \in DOMAIN table : init_db.table[r].emb \notin {NULL, 0}

\* C5: at every moment at most batch_size UPDATE statements have been issued
\* since the last commit and a chunk has at most batch_size rows; the
\* committed table changes only at the commit of a chunk, and only in rows
\* that the chunk's updates address (what earlier commits wrote to other rows
\* stays).
C5_BatchBound ==
    /\ [](/\ Len(rows) <= batch_size
          /\ updates_pending <= batch_size
          /\ updates_pending <= Len(rows))
    /\ [][ \A r \in DOMAIN table :
             table'[r] # table[r]
             => /\ pc = "commit"
                /\ \E i \in DOMAIN rows : rows[i].id = table[r][pk_column] ]_vars

C5_Witness ==
    /\ pc = "commit"
    /\ batch_size >= 2
    /\ total_processed = batch_size
    /\ updates_pending >= 1
    /\ table # init_db.table
    /\ txn # table

\* C6: when the table is missing, the source column is missing, or the table
\* has not exactly one primary-key column, the run stops in preflight: no ADD
\* COLUMN, no cursor, no provider call, no UPDATE, database unchanged.
C6_PreflightHardStop ==
    (~table_exists \/ ~column_exists \/ Len(pk_columns) # 1)
    => /\ embcol_exists = init_db.embcol
       /\ table = init_db.table
       /\ txn = table
       /\ ~declared
       /\ provider_calls = 0
       /\ updates_issued = 0

\* C7: the result of the ranking query is the min(limit, n) rows with the
\* smallest distance among the n rows with a non-NULL embedding, without
\* repetition, in ascending order of distance, each with its text and
\* similarity = 1 - distance.
C7_TopKByDistance ==
    (pc \in {"s_display", "s_done"})
    => LET D(r) == CosineDistance(table[r].emb, search_embedding)
           cand == { r \in DOMAIN table : table[r].emb # NULL }
           got == { results[i].row : i \in DOMAIN results }
       IN  /\ Len(results) = Min(limit, Cardinality(cand))
           /\ got \subseteq cand
           /\ Cardinality(got) = Len(results)
           /\ \A i \in DOMAIN results :
                /\ results[i].text = table[results[i].row].text
                /\ results[i].similarity = 10 - D(results[i].row)
           /\ \A i, j \in DOMAIN results : i < j => D(results[i].row) <= D(results[j].row)
           /\ \A r \in cand \ got : \A g \in got : D(g) <= D(r)

C7_Witness ==
    /\ pc = "s_done"
    /\ limit = 2
    /\ Len(results) = 2
    /\ results[1].similarity > results[2].similarity
    /\ \E r \in DOMAIN table :
         /\ table[r].emb # NULL
         /\ 10 - CosineDistance(table[r].emb, search_embedding) < results[2].similarity

\* C8: a provider failure on the search phrase ends the run before any
\* statement is sent to the database; a failure of the ranking query ends it
\* without results; both close the connection, and nothing is written.
C8_AbortPaths ==
    /\ (diag = "embedding_error")
       => (pc = "s_returned" /\ db_queries = 0 /\ results = << >> /\ ~conn_open)
    /\ (diag = "query_error")
       => (pc = "s_returned" /\ results = << >> /\ ~conn_open)
    /\ table = init_db.table /\ txn = table /\ embcol_exists = init_db.embcol

C8_Witness ==
    /\ diag = "query_error"
    /\ provider_calls = 1
    /\ db_queries = 4
    /\ NotNullRows(table) # {}

\* C9: a run never changes a vector that was there when its cursor was
\* declared, and a row whose vector it did change is a row it fetched, now
\* holding the vector of its own text.
C9_ExistingVectorsKept ==
    declared
    => \A r \in DOMAIN txn :
         /\ at_declare[r].emb # NULL
            => (txn[r].emb = at_declare[r].emb /\ table[r].emb = at_declare[r].emb)
         /\ txn[r].emb # at_declare[r].emb
            => (fetched[r] = 1 /\ txn[r].text # NULL /\ txn[r].emb = Embed(txn[r].text))

\* C10: every run ends; the cursor position only advances; no row is fetched
\* twice and only rows NULL at the declaration are fetched; the loop leaves
\* at the first empty chunk with the cursor exhausted; a completed run has
\* fetched every row that was NULL at the declaration exactly once and has
\* closed the cursor and committed; with no NULL row it calls the provider
\* and issues UPDATE never and processes zero rows.
C10_Terminates ==
    /\ (pc = "connect") ~> BackfillEnded
    /\ [][ cursor_pos' >= cursor_pos \/ pc = "declare" ]_vars
    /\ [](declared
          => \A r \in DOMAIN table :
               /\ fetched[r] <= 1
               /\ fetched[r] = 1 => at_declare[r].emb = NULL)
    /\ [](pc = "close" => (rows = << >> /\ cursor_pos = Len(cursor)))
    /\ [](pc = "done"
          => /\ ~cursor_open
             /\ txstatus = "idle"
             /\ txn = table
             /\ \A r \in NullAt(at_declare) : fetched[r] = 1
             /\ total_processed = Cardinality(NullAt(at_declare))
             /\ NullAt(at_declare) = {}
                => (provider_calls = 0 /\ updates_issued = 0 /\ first_chunk = 0))

C10_Witness ==
    /\ pc = "done"
    /\ run = 1
    /\ faults >= 1
    /\ total_processed >= 2
    /\ \E r \in DOMAIN table : at_declare[r].emb = NULL /\ at_declare[r].text = NULL
    /\ \E r \in DOMAIN table : at_declare[r].emb = NULL /\ table[r].emb # NULL

====
